---- MODULE Spec2Model ----
(***************************************************************************)
(* Model of the MirrorMirrorEngine backend: the meeting-invitation         *)
(* workflow of app/blueprint/webex_bp.py and the friend-request            *)
(* resolution of app/blueprint/friends_bp.py, over the rows of the         *)
(* relational store.  Every action is one HTTP handler run to completion   *)
(* (one request, one commit or none).                                      *)
(***************************************************************************)
EXTENDS Integers, Sequences, FiniteSets, TLC

(***************************************************************************)
(* Bounds of the model.                                                    *)
(***************************************************************************)
MaxInvitations == 1
MaxTime == 2
MaxStoredRequests == 2

(***************************************************************************)
(* Values.                                                                 *)
(***************************************************************************)
None == "None"
NoId == 0
NoTime == 0

\* Account rows 1..4; identity 0 is a bearer token whose account row is gone.
Accounts == 1 .. 4
Identities == 0 .. 4

\* Profile rows and their account_id column.  Account 1 owns two classrooms
\* (1 and 4), accounts 2 and 3 one each, account 4 none.
Profiles == 1 .. 4
account_id == <<1, 2, 3, 1>>

RECURSIVE MinOf(_)
MinOf(S) == LET x == CHOOSE y \in S : TRUE
            IN  IF S = {x} THEN x
                ELSE LET m == MinOf(S \ {x}) IN IF x < m THEN x ELSE m

RECURSIVE MaxOf(_)
MaxOf(S) == IF S = {} THEN 0
            ELSE LET x == CHOOSE y \in S : TRUE
                     m == MaxOf(S \ {x})
                 IN  IF x > m THEN x ELSE m

\* account.profiles.first(): the account's row with the lowest id, or NoId.
profiles(a) == {p \in Profiles : account_id[p] = a}
first(a) == IF profiles(a) = {} THEN NoId ELSE MinOf(profiles(a))

\* Account.query.get(identity)
AccountExists(c) == c \in Accounts

VARIABLES
    account,        \* account id -> the three webex token columns
    invitations,    \* meeting_invitations rows, by id (a sequence: ids 1..n)
    meetings,       \* meetings rows (a set of records with an id)
    webex,          \* the conferencing gateway: resources created / live
    now,            \* datetime.utcnow()
    friend_requests,\* friend_requests rows, by id
    relations,      \* relations rows
    notifications,  \* notifications rows, by id
    posts,          \* posts rows, by id, each with its post_likes rows
    emails,         \* the email column of the accounts rows made by register
    inflight,       \* handler executions that overlap: what each has read
    resp            \* the response of the handler that ran last

vars == <<account, invitations, meetings, webex, now,
          friend_requests, relations, notifications, posts, emails, inflight,
          resp>>

inviteVars == <<account, invitations, meetings, webex, now>>
friendVars == <<friend_requests, relations, notifications>>
postVars == <<posts>>
registerVars == <<emails>>
raceVars == <<inflight>>

\* The handler executions that may overlap.
MaxHandlers == 2
Handlers == 1 .. MaxHandlers

\* An execution: the handler, the bearer, the id the request names, where it
\* stands (idle: not started; read: its queries are done and its commit is
\* still to come; done: answered), what it read and the status it answered.
Execution(op, caller, id, pc, seen, code) ==
    [op |-> op, caller |-> caller, id |-> id, pc |-> pc, seen |-> seen, code |-> code]

NoExecution == Execution("none", 0, 0, "idle", 0, 0)

\* One request is served at a time.
Sequential == [h \in Handlers |-> NoExecution]

(***************************************************************************)
(* Responses.                                                              *)
(***************************************************************************)
\* op: the handler; caller: the identity of the bearer token; id: the id the
\* request names (invitation id, or target classroom id); code, msg: the HTTP
\* status and message; status: the status the body reports; meeting: the id
\* of the meeting in the body; calls: the gateway calls the handler made;
\* likes: the count in the body of a like or unlike; email, password: the
\* fields of the body of a registration; classroom_id: the classroom_id of
\* the body of an invitation; items: the posts of a listing, in order;
\* expires_in: the expires_in of the token response of a connect (0: none).
Response(op, caller, id, code, msg) ==
    [op |-> op, caller |-> caller, id |-> id, code |-> code, msg |-> msg,
     status |-> None, meeting |-> NoId, calls |-> <<>>, likes |-> 0,
     email |-> None, password |-> <<>>, classroom_id |-> None, items |-> <<>>,
     expires_in |-> 0]

Idle == Response("idle", 0, NoId, 0, "")

(***************************************************************************)
(* Token columns of an account row.                                        *)
(***************************************************************************)
Disconnected == [webex_access_token |-> None, webex_refresh_token |-> None,
                 webex_token_expires_at |-> NoTime]
ConnectedNoExpiry == [webex_access_token |-> "tokA", webex_refresh_token |-> "refA",
                      webex_token_expires_at |-> NoTime]
ConnectedExpiring == [webex_access_token |-> "tokA", webex_refresh_token |-> "refA",
                      webex_token_expires_at |-> 1]
TokenRows == {Disconnected, ConnectedNoExpiry, ConnectedExpiring}


(***************************************************************************)
(* The conferencing gateway (WebexService).  A call returns or raises; a   *)
(* token response carries an access token and may carry a refresh token    *)
(* and expires_in.                                                         *)
(***************************************************************************)
ExpiresIn == 1

RefreshResults ==
    { [ok |-> FALSE, access_token |-> None, refresh_token |-> None, expires_in |-> 0],
      [ok |-> TRUE, access_token |-> "tokB", refresh_token |-> None, expires_in |-> 0],
      [ok |-> TRUE, access_token |-> "tokB", refresh_token |-> "refB",
       expires_in |-> ExpiresIn] }

CreateResults == {"ok", "raise"}

\* create_meeting returned: the gateway holds one more resource, with a new id.
GatewayCreated(w) == [created |-> w.created + 1, live |-> w.live \cup {w.created + 1}]

(***************************************************************************)
(* Helpers of the invitation handlers.                                     *)
(***************************************************************************)
\* Variant: the organizer's token is not looked at.
NoTokenSkipped(acc) == FALSE

\* `not sender_account.webex_access_token`
NoToken(acc) == acc.webex_access_token = None

\* Variant: any stored expiry counts as expired, whatever the time.
TokenExpiredIgnoresNow(acc) == acc.webex_token_expires_at # NoTime

\* Variant: the expiry is never looked at.
TokenExpiredNever(acc) == FALSE

\* `webex_token_expires_at and webex_token_expires_at < datetime.utcnow()`
TokenExpired(acc) ==
    acc.webex_token_expires_at # NoTime /\ acc.webex_token_expires_at < now

\* The three assignments after refresh_access_token returned.
Refreshed(acc, r) ==
    [webex_access_token |-> r.access_token,
     webex_refresh_token |-> IF r.refresh_token = None THEN acc.webex_refresh_token
                             ELSE r.refresh_token,
     webex_token_expires_at |-> IF r.expires_in # 0 THEN now + r.expires_in
                                ELSE acc.webex_token_expires_at]

\* Variant: only an accepted invitation is refused.
NotPendingOnlyAccepted(inv) == inv.status = "accepted"

\* `invitation.status != 'pending'`
NotPending(inv) == inv.status # "pending"

\* `invitation.receiver_profile_id != receiver_profile.id`
NotReceiver(inv, profile) == inv.receiver_profile_id # profile

\* Variant: the sender is not verified.
NotSenderSkipped(inv, profile) == FALSE

\* `invitation.sender_profile_id != sender_profile.id`
NotSender(inv, profile) == inv.sender_profile_id # profile

\* The primary key of an object that was added to the session and not yet
\* flushed: reading new_meeting.id before the commit gives None.
PendingId == NoId

\* The primary key the store assigns to a new row at the flush.
FlushId(ids) == MaxOf(ids) + 1

MeetingIds == {m.id : m \in meetings}

\* Variant: the accepting profile becomes the creator.
NewMeetingByReceiver(inv, receiver_profile, webex_id) ==
    [id |-> MaxOf({m.id : m \in meetings}) + 1, webex_id |-> webex_id,
     creator_id |-> receiver_profile, participants |-> {receiver_profile},
     start_time |-> "T0"]

\* Meeting(webex_id=..., creator_id=invitation.sender_profile_id) with the
\* accepting profile appended to participants, as inserted by the commit;
\* start_time is the invitation's ("T0").
NewMeeting(inv, receiver_profile, webex_id) ==
    [id |-> FlushId(MeetingIds), webex_id |-> webex_id,
     creator_id |-> inv.sender_profile_id, participants |-> {receiver_profile},
     start_time |-> "T0"]

\* invitation.status = 'accepted'; invitation.meeting_id = new_meeting.id
AcceptedInvitation(inv) ==
    [inv EXCEPT !.status = "accepted", !.meeting_id = PendingId]

\* invitation.status = 'declined'
DeclinedInvitation(inv) == [inv EXCEPT !.status = "declined"]

\* Variant: cancel writes the status of decline.
CancelledAsDeclined(inv) == [inv EXCEPT !.status = "declined"]

\* invitation.status = 'cancelled'
CancelledInvitation(inv) == [inv EXCEPT !.status = "cancelled"]

\* A handler returns without a commit: the session is discarded.
Reject(r) ==
    /\ resp' = r
    /\ UNCHANGED <<account, invitations, meetings, webex>>

InvitationIds == 1 .. (MaxInvitations + 1)

(***************************************************************************)
(* create_webex_meeting: POST /api/webex/meeting.  classroom_id is the     *)
(* JSON value of the body; times tells whether start_time/end_time are     *)
(* absent, parse, or do not parse (read only once the ids are validated). *)
(***************************************************************************)
ClassroomIdInputs ==
    {[kind |-> "missing", val |-> 0], [kind |-> "dummy", val |-> 0],
     [kind |-> "text", val |-> 0]}
    \cup {[kind |-> "int", val |-> n] : n \in 0 .. 5}
    \cup {[kind |-> "numstr", val |-> n] : n \in {0, 2}}

TimeInputs == {"absent", "valid", "invalid"}

\* `not classroom_id`: None, 0 and the empty string are falsy.
ClassroomIdFalsy(cid) == cid.kind = "missing" \/ (cid.kind = "int" /\ cid.val = 0)

\* isinstance(classroom_id, str) and classroom_id.startswith('dummy_')
IsDummy(cid) == cid.kind = "dummy"

\* int(classroom_id) raises ValueError for a string that is no number.
IntRaises(cid) == cid.kind \in {"text", "dummy"}

\* Variant: every id finds a profile.
ProfileExistsAlways(p) == TRUE

\* Profile.query.get(id)
ProfileExists(p) == p \in Profiles

\* Variant: the invitation is stored with a meeting linked.
NewInvitationLinked(sender, receiver) ==
    [sender_profile_id |-> sender, receiver_profile_id |-> receiver,
     status |-> "pending", meeting_id |-> 1]

NewInvitation(sender, receiver) ==
    [sender_profile_id |-> sender, receiver_profile_id |-> receiver,
     status |-> "pending", meeting_id |-> NoId]

CreateInvitation(c, cid) ==
    LET R(code, msg) == [Response("create", c, NoId, code, msg)
                         EXCEPT !.classroom_id = cid]
    IN
    /\ UNCHANGED <<now, friendVars, postVars, registerVars, raceVars>>
    /\ IF ~AccountExists(c) THEN Reject(R(404, "User not found"))
       ELSE IF first(c) = NoId THEN Reject(R(400, "No profile found for account"))
       ELSE IF ClassroomIdFalsy(cid) THEN Reject(R(400, "classroom_id is required"))
       ELSE IF IsDummy(cid) THEN Reject(R(400, "Cannot invite dummy classrooms"))
       ELSE IF IntRaises(cid) THEN Reject(R(400, "Invalid classroom_id format"))
       ELSE IF ~ProfileExists(cid.val) THEN Reject(R(404, "Receiver classroom not found"))
       ELSE IF first(c) = cid.val
            THEN Reject(R(400, "You cannot invite your own classroom"))
       ELSE \E times \in TimeInputs :
              IF times = "invalid" THEN Reject(R(400, "Invalid date format"))
              ELSE /\ Len(invitations) < MaxInvitations
                   /\ invitations' = Append(invitations,
                                            NewInvitation(first(c), cid.val))
                   /\ resp' = [R(201, "Meeting invitation sent successfully")
                               EXCEPT !.id = Len(invitations) + 1,
                                      !.status = "pending"]
                   /\ UNCHANGED <<account, meetings, webex>>

(***************************************************************************)
(* accept_invitation: POST /api/webex/invitations/<id>/accept              *)
(***************************************************************************)
\* Lines 390-433: the gateway call, then the Meeting row, the invitation's
\* status and link, and the one commit.  acc is the account table as the
\* refresh left it (committed at line 386 when a refresh ran).
AcceptCreate(c, i, acc, calls) ==
    LET inv == invitations[i]
        R(code, msg) == [Response("accept", c, i, code, msg)
                         EXCEPT !.calls = Append(calls, "create")]
    IN  \E g \in CreateResults :
          IF g = "raise"
          THEN /\ resp' = R(500, "Failed to create WebEx meeting")
               /\ account' = acc
               /\ UNCHANGED <<invitations, meetings, webex>>
          ELSE LET new_meeting == NewMeeting(inv, first(c), webex.created + 1) IN
               /\ webex' = GatewayCreated(webex)
               /\ meetings' = meetings \cup {new_meeting}
               /\ invitations' = [invitations EXCEPT ![i] = AcceptedInvitation(inv)]
               /\ account' = acc
               /\ resp' = [R(201, "Invitation accepted. Meeting created successfully!")
                           EXCEPT !.meeting = new_meeting.id, !.status = "accepted"]

AcceptInvitation(c, i) ==
    LET R(code, msg) == Response("accept", c, i, code, msg) IN
    /\ UNCHANGED <<now, friendVars, postVars, registerVars, raceVars>>
    /\ IF ~AccountExists(c) THEN Reject(R(404, "User not found"))
       ELSE IF first(c) = NoId THEN Reject(R(400, "No profile found for account"))
       ELSE IF i \notin DOMAIN invitations THEN Reject(R(404, "Invitation not found"))
       ELSE IF NotReceiver(invitations[i], first(c))
            THEN Reject(R(403, "This invitation is not for you"))
       ELSE IF NotPending(invitations[i])
            THEN Reject([R(400, "Invitation is already")
                         EXCEPT !.status = invitations[i].status])
       ELSE LET s == account_id[invitations[i].sender_profile_id] IN
            IF NoToken(account[s])
            THEN Reject(R(403, "The meeting organizer's WebEx account is not connected"))
            ELSE IF TokenExpired(account[s])
            THEN \E r \in RefreshResults :
                   IF ~r.ok
                   THEN Reject([R(403, "Failed to refresh organizer's WebEx session")
                                EXCEPT !.calls = <<"refresh">>])
                   ELSE AcceptCreate(c, i,
                                     [account EXCEPT ![s] = Refreshed(account[s], r)],
                                     <<"refresh">>)
            ELSE AcceptCreate(c, i, account, <<>>)

(***************************************************************************)
(* decline_invitation and cancel_invitation                                *)
(***************************************************************************)
DeclineInvitation(c, i) ==
    LET R(code, msg) == Response("decline", c, i, code, msg) IN
    /\ UNCHANGED <<now, friendVars, postVars, registerVars, raceVars>>
    /\ IF ~AccountExists(c) THEN Reject(R(404, "User not found"))
       ELSE IF first(c) = NoId THEN Reject(R(400, "No profile found for account"))
       ELSE IF i \notin DOMAIN invitations THEN Reject(R(404, "Invitation not found"))
       ELSE IF NotReceiver(invitations[i], first(c))
            THEN Reject(R(403, "This invitation is not for you"))
       ELSE IF NotPending(invitations[i])
            THEN Reject([R(400, "Invitation is already")
                         EXCEPT !.status = invitations[i].status])
       ELSE /\ invitations' = [invitations EXCEPT ![i] = DeclinedInvitation(@)]
            /\ resp' = [R(200, "Invitation declined successfully")
                        EXCEPT !.status = "declined"]
            /\ UNCHANGED <<account, meetings, webex>>

CancelInvitation(c, i) ==
    LET R(code, msg) == Response("cancel", c, i, code, msg) IN
    /\ UNCHANGED <<now, friendVars, postVars, registerVars, raceVars>>
    /\ IF ~AccountExists(c) THEN Reject(R(404, "User not found"))
       ELSE IF first(c) = NoId THEN Reject(R(400, "No profile found for account"))
       ELSE IF i \notin DOMAIN invitations THEN Reject(R(404, "Invitation not found"))
       ELSE IF NotSender(invitations[i], first(c))
            THEN Reject(R(403, "You can only cancel invitations you sent"))
       ELSE IF NotPending(invitations[i])
            THEN Reject([R(400, "Cannot cancel")
                         EXCEPT !.status = invitations[i].status])
       ELSE /\ invitations' = [invitations EXCEPT ![i] = CancelledInvitation(@)]
            /\ resp' = [R(200, "Invitation cancelled successfully")
                        EXCEPT !.status = "cancelled"]
            /\ UNCHANGED <<account, meetings, webex>>

(***************************************************************************)
(* manage_meeting: GET, PUT, DELETE /api/webex/meeting/<id>                *)
(***************************************************************************)
Methods == {"GET", "PUT", "DELETE"}
OpOf(method) == IF method = "GET" THEN "get"
                ELSE IF method = "PUT" THEN "update" ELSE "delete"

\* The start_time of the body of a PUT: absent, a timestamp, or a string
\* that does not parse.
UpdateInputs == {"absent", "T1", "invalid"}

\* delete_meeting and update_meeting of the gateway return or raise.
DeleteResults == {"ok", "raise"}
UpdateResults == {"ok", "raise"}

\* delete_meeting returned: the resource is gone.
GatewayDeleted(w, webex_id) == [w EXCEPT !.live = @ \ {webex_id}]

\* Meeting.query.get(meeting_id)
MeetingRows(m) == {r \in meetings : r.id = m}

\* Variant: the local row is deleted although delete_meeting raised.
DeleteRaisedRowDropped(meeting) == meetings \ {meeting}

\* delete_meeting raised: lines 238-239 are skipped and the handler returns
\* from the except branch, so the meetings table is as it was.
DeleteRaisedRowKept(meeting) == meetings

\* Variant: whoever passed the first check counts as the creator.
IsCreatorLoose(meeting, profile) == TRUE

\* `meeting.creator_id == profile.id`
IsCreator(meeting, profile) == meeting.creator_id = profile

\* `profile in meeting.participants`
IsParticipant(meeting, profile) == profile \in meeting.participants

\* Lines 212-277: the three methods.  acc is the account table as the
\* refresh step left it (committed at line 206 when the refresh returned),
\* calls the gateway calls made so far.
ManageMethod(c, meeting, method, acc, calls) ==
    LET R(code, msg, more) ==
            [Response(OpOf(method), c, meeting.id, code, msg)
             EXCEPT !.calls = calls \o more]
        is_creator == IsCreator(meeting, first(c))
        Refuse(r) == /\ resp' = r
                     /\ account' = acc
                     /\ UNCHANGED <<invitations, meetings, webex>>
    IN
    IF method = "GET" THEN Refuse(R(200, "", <<>>))
    ELSE IF method = "DELETE"
    THEN IF ~is_creator
         THEN Refuse(R(403, "Only default creator can delete meetings", <<>>))
         ELSE IF NoToken(acc[c])
         THEN Refuse(R(403, "WebEx not connected. Cannot delete meeting.", <<>>))
         ELSE \E g \in DeleteResults :
                IF g = "raise"
                THEN /\ resp' = R(500, "Failed to delete meeting", <<"delete">>)
                     /\ meetings' = DeleteRaisedRowKept(meeting)
                     /\ account' = acc
                     /\ UNCHANGED <<invitations, webex>>
                ELSE /\ webex' = GatewayDeleted(webex, meeting.webex_id)
                     /\ meetings' = meetings \ {meeting}
                     /\ account' = acc
                     /\ resp' = R(200, "Meeting deleted successfully", <<"delete">>)
                     /\ UNCHANGED invitations
    ELSE IF ~is_creator
         THEN Refuse(R(403, "Only creator can update meetings", <<>>))
         ELSE IF NoToken(acc[c])
         THEN Refuse(R(403, "WebEx not connected. Cannot update meeting.", <<>>))
         ELSE \E start_time \in UpdateInputs :
                IF start_time = "invalid"
                THEN Refuse(R(400, "Invalid date format", <<>>))
                ELSE \E g \in UpdateResults :
                       IF g = "raise"
                       THEN Refuse(R(500, "Failed to update meeting", <<"update">>))
                       ELSE /\ meetings' =
                                 (meetings \ {meeting}) \cup
                                 {[meeting EXCEPT !.start_time =
                                      IF start_time = "absent" THEN @ ELSE start_time]}
                            /\ account' = acc
                            /\ resp' = R(200, "Meeting updated successfully",
                                         <<"update">>)
                            /\ UNCHANGED <<invitations, webex>>

ManageMeeting(c, m, method) ==
    LET R(code, msg) == Response(OpOf(method), c, m, code, msg) IN
    /\ UNCHANGED <<now, friendVars, postVars, registerVars, raceVars>>
    /\ IF ~AccountExists(c) THEN Reject(R(404, "User not found"))
       ELSE IF MeetingRows(m) = {} THEN Reject(R(404, "Meeting not found"))
       ELSE IF first(c) = NoId THEN Reject(R(404, "Profile not found"))
       ELSE LET meeting == CHOOSE r \in MeetingRows(m) : TRUE IN
            IF ~(IsCreator(meeting, first(c)) \/ IsParticipant(meeting, first(c)))
            THEN Reject(R(403, "Unauthorized"))
            ELSE IF ~NoToken(account[c]) /\ TokenExpired(account[c])
            THEN \E r \in RefreshResults :
                   ManageMethod(c, meeting, method,
                                IF r.ok
                                THEN [account EXCEPT ![c] = Refreshed(account[c], r)]
                                ELSE account,
                                <<"refresh">>)
            ELSE ManageMethod(c, meeting, method, account, <<>>)

(***************************************************************************)
(* webex_disconnect: POST /api/webex/disconnect                            *)
(***************************************************************************)
DisconnectWebex(c) ==
    LET R(code, msg) == Response("disconnect", c, NoId, code, msg) IN
    /\ UNCHANGED <<now, friendVars, postVars, registerVars, raceVars>>
    /\ IF ~AccountExists(c) THEN Reject(R(404, "User not found"))
       ELSE /\ account' = [account EXCEPT ![c] = Disconnected]
            /\ resp' = R(200, "Disconnected from WebEx successfully")
            /\ UNCHANGED <<invitations, meetings, webex>>

(***************************************************************************)
(* connect_webex: POST /api/webex/connect                                  *)
(***************************************************************************)
\* The `code` of the JSON body.
CodeInputs == {"missing", "code"}

\* exchange_code raises, or returns the token response, with or without an
\* expires_in.
ExchangeResults ==
    { [ok |-> FALSE, access_token |-> None, refresh_token |-> None, expires_in |-> 0],
      [ok |-> TRUE, access_token |-> "tokA", refresh_token |-> "refA", expires_in |-> 0],
      [ok |-> TRUE, access_token |-> "tokA", refresh_token |-> "refA",
       expires_in |-> ExpiresIn] }

\* The assignments after exchange_code returned.  The expiry goes to the
\* attribute webex_token_expire_at of the loaded object, which is no column
\* of the row: the column webex_token_expires_at keeps its value.
Connected(acc, t) ==
    [webex_access_token |-> t.access_token,
     webex_refresh_token |-> t.refresh_token,
     webex_token_expires_at |-> acc.webex_token_expires_at]

ConnectWebex(c, code) ==
    LET R(status, msg) == Response("connect", c, NoId, status, msg) IN
    /\ UNCHANGED <<now, friendVars, postVars, registerVars, raceVars>>
    /\ IF ~AccountExists(c) THEN Reject(R(404, "User not found"))
       ELSE IF code = "missing" THEN Reject(R(400, "Missing auth code"))
       ELSE \E t \in ExchangeResults :
              IF ~t.ok THEN Reject(R(500, "exchange_code raised"))
              ELSE /\ account' = [account EXCEPT ![c] = Connected(@, t)]
                   /\ resp' = [R(200, "WebEx connected successfully")
                                 EXCEPT !.calls = <<"exchange_code">>,
                                        !.expires_in = t.expires_in]
                   /\ UNCHANGED <<invitations, meetings, webex>>

\* Time passes between two requests.
Tick ==
    /\ now < MaxTime
    /\ now' = now + 1
    /\ UNCHANGED <<account, invitations, meetings, webex, friendVars, postVars,
                   registerVars, raceVars, resp>>

\* The response goes to the client: the handler invocation is over.
Return ==
    /\ resp # Idle
    /\ resp' = Idle
    /\ UNCHANGED <<inviteVars, friendVars, postVars, registerVars, raceVars>>

(***************************************************************************)
(* The store as the application finds it: account and profile rows exist   *)
(* (registration and classroom creation), the token columns of accounts 1  *)
(* and 2 hold one of the row shapes, accounts 3 and 4 never connected, and *)
(* every other table is empty.                                             *)
(***************************************************************************)
Init ==
    /\ account \in {f \in [Accounts -> TokenRows] :
                        f[3] = Disconnected /\ f[4] = Disconnected}
    /\ invitations = <<>>
    /\ meetings = {}
    /\ webex = [created |-> 0, live |-> {}]
    /\ now = 1
    /\ friend_requests = <<>>
    /\ relations = {}
    /\ notifications = <<>>
    /\ posts = <<>>
    /\ emails = <<>>
    /\ inflight = Sequential
    /\ resp = Idle

\* One request at a time: a handler runs to completion and its response is
\* returned before the next request is taken.
Serve(handler) == resp = Idle /\ handler

NextInvite ==
    \/ \E c \in Identities, cid \in ClassroomIdInputs : Serve(CreateInvitation(c, cid))
    \/ \E c \in Identities, i \in InvitationIds : Serve(AcceptInvitation(c, i))
    \/ \E c \in Identities, i \in InvitationIds : Serve(DeclineInvitation(c, i))
    \/ \E c \in Identities, i \in InvitationIds : Serve(CancelInvitation(c, i))
    \/ Serve(Tick)
    \/ Return

SpecInvite == Init /\ [][NextInvite]_vars

\* Invitations, their acceptance, and the management of the meetings made.
NextMeetings ==
    \/ \E c \in Identities, cid \in ClassroomIdInputs : Serve(CreateInvitation(c, cid))
    \/ \E c \in Identities, i \in InvitationIds : Serve(AcceptInvitation(c, i))
    \/ \E c \in Identities, m \in InvitationIds, method \in Methods :
          Serve(ManageMeeting(c, m, method))
    \/ \E c \in Identities : Serve(DisconnectWebex(c))
    \/ Serve(Tick)
    \/ Return

SpecMeetings == Init /\ [][NextMeetings]_vars

\* Connecting and disconnecting, with the invitation handlers that read the
\* token columns.
NextConnect ==
    \/ \E c \in Identities, code \in CodeInputs : Serve(ConnectWebex(c, code))
    \/ \E c \in Identities : Serve(DisconnectWebex(c))
    \/ \E c \in Identities, cid \in ClassroomIdInputs : Serve(CreateInvitation(c, cid))
    \/ \E c \in Identities, i \in InvitationIds : Serve(AcceptInvitation(c, i))
    \/ Serve(Tick)
    \/ Return

SpecConnect == Init /\ [][NextConnect]_vars

(***************************************************************************)
(* send_friend_request: POST /api/friends/request                          *)
(***************************************************************************)
\* The JSON body: absent or empty, or an object with classroomId (0 stands
\* for a missing or falsy classroomId).
FriendBodies == {[present |-> FALSE, classroomId |-> 0]}
                \cup {[present |-> TRUE, classroomId |-> n] : n \in 0 .. 5}

\* Variant: the relations table is not consulted.
ExistingRelationSkipped(s, t) == FALSE

\* Relation.query.filter(... | ...).first(): a row in either direction.
ExistingRelation(s, t) ==
    \E r \in relations :
        \/ r.from_profile_id = s /\ r.to_profile_id = t
        \/ r.from_profile_id = t /\ r.to_profile_id = s

\* FriendRequest.query.filter_by(sender, receiver, status='pending'): ids.
PendingRequests(s, t) ==
    {k \in DOMAIN friend_requests :
        /\ friend_requests[k].sender_profile_id = s
        /\ friend_requests[k].receiver_profile_id = t
        /\ friend_requests[k].status = "pending"}

\* Relation(): from/to set by the handler, status left to the column default.
RelationDefaultStatus == "accepted"

\* Variant: both rows are written in the same direction.
NewRelationSameDirection(from, to) ==
    [from_profile_id |-> IF from < to THEN from ELSE to,
     to_profile_id |-> IF from < to THEN to ELSE from,
     status |-> RelationDefaultStatus]

NewRelation(from, to) ==
    [from_profile_id |-> from, to_profile_id |-> to, status |-> RelationDefaultStatus]

\* Notification(): account_id, title, type and related_id are set by both
\* branches; message only by the auto-accept branch.  read defaults to False.
NewNotification(acct, title, message, type, related) ==
    [account_id |-> acct, title |-> title, message |-> message, type |-> type,
     related_id |-> related, read |-> FALSE]

\* notifications.message is NOT NULL and has no default: the INSERT of a row
\* without a message raises IntegrityError at the commit.
NotNullViolated(notif) == notif.message = None

\* Lines 68-92: auto-accept of the reverse request.
AcceptedNotification(sender_profile, target_profile) ==
    NewNotification(account_id[target_profile], "Friend Request Accepted",
                    "accepted your friend request!", "success", sender_profile)

\* Lines 100-105: the notification of a new request (no message is set).
RequestNotification(sender_profile, target_profile) ==
    NewNotification(account_id[target_profile], "New Friend Request",
                    None, "friend_request_received", sender_profile)

NewFriendRequest(s, t) ==
    [sender_profile_id |-> s, receiver_profile_id |-> t, status |-> "pending"]

\* Variant: the reverse request is left pending.
AcceptedRequestLeftPending(req) == req

\* reverse_request.status = 'accepted'
AcceptedRequest(req) == [req EXCEPT !.status = "accepted"]

RejectFriend(r) ==
    /\ resp' = r
    /\ UNCHANGED friendVars

SubmitFriendRequest(c, body) ==
    LET R(code, msg) == Response("friend", c, body.classroomId, code, msg)
        s == first(c)
        t == body.classroomId
    IN
    /\ UNCHANGED <<inviteVars, postVars, registerVars, raceVars>>
    /\ IF ~AccountExists(c) THEN RejectFriend(R(404, "User not found"))
       ELSE IF s = NoId THEN RejectFriend(R(404, "Profile not found"))
       ELSE IF ~body.present THEN RejectFriend(R(400, "Request body is required"))
       ELSE IF t = 0 THEN RejectFriend(R(400, "Target classroom ID is required"))
       ELSE IF ~ProfileExists(t) THEN RejectFriend(R(404, "Target classroom not found"))
       ELSE IF s = t THEN RejectFriend(R(400, "Cannot add yourself as a friend"))
       ELSE IF ExistingRelation(s, t) THEN RejectFriend(R(400, "Already friends"))
       ELSE IF PendingRequests(s, t) # {}
            THEN RejectFriend(R(400, "Friend request already sent"))
       ELSE IF PendingRequests(t, s) # {}
            THEN LET k == MinOf(PendingRequests(t, s))
                     notif == AcceptedNotification(s, t)
                 IN  IF NotNullViolated(notif)
                     THEN RejectFriend(R(500, "IntegrityError"))
                     ELSE /\ friend_requests' =
                                [friend_requests EXCEPT ![k] = AcceptedRequest(@)]
                          /\ relations' = relations \cup {NewRelation(t, s), NewRelation(s, t)}
                          /\ notifications' = Append(notifications, notif)
                          /\ resp' = [R(200, "Friend request accepted (mutual)")
                                      EXCEPT !.status = "accepted"]
       ELSE LET notif == RequestNotification(s, t)
            IN  IF NotNullViolated(notif)
                THEN RejectFriend(R(500, "IntegrityError"))
                ELSE /\ friend_requests' = Append(friend_requests, NewFriendRequest(s, t))
                     /\ notifications' = Append(notifications, notif)
                     /\ UNCHANGED relations
                     /\ resp' = [R(201, "Friend request sent") EXCEPT !.status = "pending"]

(***************************************************************************)
(* The friend_requests table as the handler may find it: up to             *)
(* MaxStoredRequests pending rows, each from an account's first classroom  *)
(* to another classroom, no two for the same ordered pair and none         *)
(* answered by a pending row in the reverse direction.                     *)
(***************************************************************************)
SenderProfiles == {first(a) : a \in Accounts} \ {NoId}

StoredRequestRows ==
    {NewFriendRequest(s, t) : s \in SenderProfiles, t \in Profiles} \
    {NewFriendRequest(p, p) : p \in Profiles}

RECURSIVE SeqsUpTo(_, _)
SeqsUpTo(S, n) ==
    IF n = 0 THEN {<<>>}
    ELSE LET shorter == SeqsUpTo(S, n - 1)
         IN  shorter \cup {Append(q, x) : q \in {r \in shorter : Len(r) = n - 1}, x \in S}

ConsistentRequests(q) ==
    \A j, k \in DOMAIN q :
        j # k =>
            /\ ~(q[j].sender_profile_id = q[k].sender_profile_id
                 /\ q[j].receiver_profile_id = q[k].receiver_profile_id)
            /\ ~(q[j].sender_profile_id = q[k].receiver_profile_id
                 /\ q[j].receiver_profile_id = q[k].sender_profile_id)

InitFriends ==
    /\ account = [a \in Accounts |-> Disconnected]
    /\ invitations = <<>>
    /\ meetings = {}
    /\ webex = [created |-> 0, live |-> {}]
    /\ now = 1
    /\ friend_requests \in {q \in SeqsUpTo(StoredRequestRows, MaxStoredRequests) :
                               ConsistentRequests(q)}
    /\ relations = {}
    /\ notifications = <<>>
    /\ posts = <<>>
    /\ emails = <<>>
    /\ inflight = Sequential
    /\ resp = Idle

NextFriends ==
    \E c \in Identities, body \in FriendBodies : SubmitFriendRequest(c, body)

SpecFriends == InitFriends /\ [][NextFriends]_vars

(***************************************************************************)
(* mark_notification_read and delete_notification of notification_bp.py.   *)
(* A deleted row leaves its place in the table empty; the store gives a    *)
(* new row the id after the highest one in use, so empty places at the end *)
(* of the table are given out again.                                       *)
(***************************************************************************)
NotificationIds == 1 .. (MaxStoredRequests + 1)

\* The place of a deleted row.
DeletedRow == NewNotification(0, None, None, None, NoId)

\* Notification.query.get(notification_id) finds a row.
NotificationExists(n) == n \in DOMAIN notifications /\ notifications[n] # DeletedRow

RECURSIVE TrimDeleted(_)
TrimDeleted(q) ==
    IF q # <<>> /\ q[Len(q)] = DeletedRow
    THEN TrimDeleted(SubSeq(q, 1, Len(q) - 1))
    ELSE q

\* Variant: the owner of the notification is not compared with the caller.
NotOwnerSkipped(notif, c) == FALSE

\* `notif.account_id != account.id`
NotOwner(notif, c) == notif.account_id # c

\* `not notif or not account or notif.account_id != account.id`
NotificationHidden(c, n) ==
    \/ ~NotificationExists(n)
    \/ ~AccountExists(c)
    \/ NotOwner(notifications[n], c)

MarkNotificationRead(c, n) ==
    LET R(code, msg) == Response("mark_read", c, n, code, msg) IN
    /\ UNCHANGED <<inviteVars, postVars, registerVars, raceVars, friend_requests, relations>>
    /\ IF NotificationHidden(c, n)
       THEN resp' = R(404, "Notification not found") /\ UNCHANGED notifications
       ELSE /\ notifications' = [notifications EXCEPT ![n].read = TRUE]
            /\ resp' = R(200, "Marked as read")

DeleteNotification(c, n) ==
    LET R(code, msg) == Response("delete_notification", c, n, code, msg) IN
    /\ UNCHANGED <<inviteVars, postVars, registerVars, raceVars, friend_requests, relations>>
    /\ IF NotificationHidden(c, n)
       THEN resp' = R(404, "Notification not found") /\ UNCHANGED notifications
       ELSE /\ notifications' = TrimDeleted([notifications EXCEPT ![n] = DeletedRow])
            /\ resp' = R(200, "Deleted")

\* Friend requests, whose resolution makes the notifications, and the two
\* notification handlers.
NextNotifications ==
    \/ \E c \in Identities, body \in FriendBodies : Serve(SubmitFriendRequest(c, body))
    \/ \E c \in Identities, n \in NotificationIds : Serve(MarkNotificationRead(c, n))
    \/ \E c \in Identities, n \in NotificationIds : Serve(DeleteNotification(c, n))
    \/ Return

SpecNotifications == InitFriends /\ [][NextNotifications]_vars

(***************************************************************************)
(* Posts: create_post, like_post and unlike_post of posts_bp.py.  A posts  *)
(* row carries its likes column and its post_likes rows (liked_by).        *)
(***************************************************************************)
MaxPosts == 2

PostIds == 1 .. (MaxPosts + 1)

\* The JSON body of create_post: absent, or with an empty or a filled content.
PostBodies == {[present |-> FALSE, content |-> ""],
               [present |-> TRUE, content |-> ""],
               [present |-> TRUE, content |-> "hello"]}

\* The likes column default.
LikesDefault == 0

\* The created_at column default is datetime.now(timezone.utc), a value and
\* not a callable: it is computed once, when post.py is imported, and given
\* to every row that is inserted without a created_at.
ImportTime == 1

\* Post(): profile_id and content set by the handler, likes and created_at
\* left to the column defaults, no post_likes row.
NewPost(profile, content) ==
    [profile_id |-> profile, content |-> content, likes |-> LikesDefault,
     liked_by |-> {}, created_at |-> ImportTime]

\* The response of a posts handler; likes is the count in the body.
PostResponse(op, c, p, code, msg, likes) ==
    [Response(op, c, p, code, msg) EXCEPT !.likes = likes]

RejectPost(r) ==
    /\ resp' = r
    /\ UNCHANGED posts

CreatePost(c, body) ==
    LET R(code, msg) == Response("post", c, NoId, code, msg) IN
    /\ UNCHANGED <<inviteVars, friendVars, registerVars, raceVars>>
    /\ IF ~AccountExists(c) THEN RejectPost(R(404, "User not found"))
       ELSE IF first(c) = NoId
            THEN RejectPost(R(400, "Profile not found. Create a profile first."))
       ELSE IF ~body.present THEN RejectPost(R(400, "Request body is required"))
       ELSE IF body.content = "" THEN RejectPost(R(400, "Content is required"))
       ELSE /\ Len(posts) < MaxPosts
            /\ posts' = Append(posts, NewPost(first(c), body.content))
            /\ resp' = Response("post", c, Len(posts) + 1, 201,
                                "Post created successfully")

\* Variant: the membership is not looked at before a like.
AlreadyLikedSkipped(c, post) == FALSE

\* `account in post.liked_by`
AlreadyLiked(c, post) == c \in post.liked_by

\* Variant: the membership is not looked at before an unlike.
NotLikedSkipped(c, post) == FALSE

\* `account not in post.liked_by`
NotLiked(c, post) == c \notin post.liked_by

\* post.liked_by.append(account); post.likes += 1
Liked(c, post) ==
    [post EXCEPT !.liked_by = @ \cup {c}, !.likes = @ + 1]

\* post.liked_by.remove(account); if post.likes > 0: post.likes -= 1
Unliked(c, post) ==
    [post EXCEPT !.liked_by = @ \ {c}, !.likes = IF @ > 0 THEN @ - 1 ELSE @]

LikePost(c, p) ==
    LET R(code, msg, likes) == PostResponse("like", c, p, code, msg, likes) IN
    /\ UNCHANGED <<inviteVars, friendVars, registerVars, raceVars>>
    /\ IF ~AccountExists(c) THEN RejectPost(R(404, "User not found", 0))
       ELSE IF p \notin DOMAIN posts THEN RejectPost(R(404, "Post not found", 0))
       ELSE IF AlreadyLiked(c, posts[p])
            THEN RejectPost(R(200, "Already liked", posts[p].likes))
       ELSE /\ posts' = [posts EXCEPT ![p] = Liked(c, @)]
            /\ resp' = R(200, "Post liked", Liked(c, posts[p]).likes)

UnlikePost(c, p) ==
    LET R(code, msg, likes) == PostResponse("unlike", c, p, code, msg, likes) IN
    /\ UNCHANGED <<inviteVars, friendVars, registerVars, raceVars>>
    /\ IF ~AccountExists(c) THEN RejectPost(R(404, "User not found", 0))
       ELSE IF p \notin DOMAIN posts THEN RejectPost(R(404, "Post not found", 0))
       ELSE IF NotLiked(c, posts[p])
            THEN RejectPost(R(200, "Not liked yet", posts[p].likes))
       ELSE /\ posts' = [posts EXCEPT ![p] = Unliked(c, @)]
            /\ resp' = R(200, "Post unliked", Unliked(c, posts[p]).likes)

\* get_jwt_identity() of a request without a bearer token.
Anonymous == -1

\* Account.query.get(current_user_id) when current_user_id is set.
CurrentAccount(viewer) ==
    IF viewer # Anonymous /\ AccountExists(viewer) THEN viewer ELSE NoId

\* order_by(desc(Post.created_at)): the orders of the post ids in which no
\* post comes before one with a later created_at; the store is free in the
\* order of rows with the same created_at.
RECURSIVE Orderings(_)
Orderings(ids) ==
    IF ids = {} THEN {<<>>}
    ELSE UNION {{<<p>> \o rest : rest \in Orderings(ids \ {p})} :
                p \in {q \in ids : \A r \in ids :
                                     posts[q].created_at >= posts[r].created_at}}

\* post_data of one post.
PostItem(viewer, p) ==
    [id |-> p,
     isLiked |-> CurrentAccount(viewer) # NoId
                 /\ CurrentAccount(viewer) \in posts[p].liked_by]

GetPosts(viewer) ==
    /\ UNCHANGED <<inviteVars, friendVars, postVars, registerVars, raceVars>>
    /\ \E order \in Orderings(DOMAIN posts) :
          resp' = [Response("list", viewer, NoId, 200, "")
                   EXCEPT !.items = [k \in DOMAIN order |-> PostItem(viewer, order[k])]]

\* The callers of like and unlike: a bearer whose account row is gone, two
\* accounts with a classroom and the account without one.
Likers == {0, 1, 2, 4}

\* No account has connected and every other table is empty.
InitPosts ==
    /\ account = [a \in Accounts |-> Disconnected]
    /\ invitations = <<>>
    /\ meetings = {}
    /\ webex = [created |-> 0, live |-> {}]
    /\ now = 1
    /\ friend_requests = <<>>
    /\ relations = {}
    /\ notifications = <<>>
    /\ posts = <<>>
    /\ emails = <<>>
    /\ inflight = Sequential
    /\ resp = Idle

NextPosts ==
    \/ \E c \in Identities, body \in PostBodies : Serve(CreatePost(c, body))
    \/ \E c \in Likers, p \in PostIds : Serve(LikePost(c, p))
    \/ \E c \in Likers, p \in PostIds : Serve(UnlikePost(c, p))
    \/ \E viewer \in Likers \cup {Anonymous} : Serve(GetPosts(viewer))
    \/ Return

SpecPosts == InitPosts /\ [][NextPosts]_vars

(***************************************************************************)
(* like_post and unlike_post when requests overlap.  Each request has its  *)
(* own session: the handler loads the account and the post, with its       *)
(* post_likes rows, checks the membership and changes the loaded objects;  *)
(* the commit then flushes an INSERT or DELETE of the post_likes row and   *)
(* an UPDATE of posts.likes to the value computed from the one loaded.     *)
(* No query locks a row and posts has no version column.                   *)
(***************************************************************************)
\* The executions start in the order of their numbers.
CanStart(h) ==
    /\ inflight[h].pc = "idle"
    /\ \A g \in Handlers : g < h => inflight[g].pc # "idle"

\* The queries and checks of like_post (lines 120-131) or unlike_post
\* (lines 143-154); refused: the membership check answers at once.
LoadPost(op, c, p, refused) ==
    IF ~AccountExists(c) THEN Execution(op, c, p, "done", 0, 404)
    ELSE IF p \notin DOMAIN posts THEN Execution(op, c, p, "done", 0, 404)
    ELSE IF refused THEN Execution(op, c, p, "done", posts[p].likes, 200)
    ELSE Execution(op, c, p, "read", posts[p].likes, 0)

BeginLike(h, c, p) ==
    /\ CanStart(h)
    /\ inflight' = [inflight EXCEPT ![h] =
                       LoadPost("like", c, p,
                                p \in DOMAIN posts /\ AlreadyLiked(c, posts[p]))]
    /\ UNCHANGED <<inviteVars, friendVars, postVars, registerVars, resp>>

BeginUnlike(h, c, p) ==
    /\ CanStart(h)
    /\ inflight' = [inflight EXCEPT ![h] =
                       LoadPost("unlike", c, p,
                                p \in DOMAIN posts /\ NotLiked(c, posts[p]))]
    /\ UNCHANGED <<inviteVars, friendVars, postVars, registerVars, resp>>

\* The post as the execution holds it: the likes are those it loaded.
Loaded(e) == [posts[e.id] EXCEPT !.likes = e.seen]

\* Lines 133-137.  The INSERT of a post_likes row that another execution
\* has inserted meanwhile violates the primary key (post_id, account_id):
\* the commit raises and nothing is written.
CommitLike(h) ==
    LET e == inflight[h] IN
    /\ e.pc = "read"
    /\ e.op = "like"
    /\ UNCHANGED <<inviteVars, friendVars, registerVars, resp>>
    /\ IF e.caller \in posts[e.id].liked_by
       THEN /\ inflight' = [inflight EXCEPT ![h].pc = "done", ![h].code = 500]
            /\ UNCHANGED posts
       ELSE /\ posts' = [posts EXCEPT ![e.id] = Liked(e.caller, Loaded(e))]
            /\ inflight' = [inflight EXCEPT ![h].pc = "done", ![h].code = 200]

\* Lines 156-161.  The DELETE of a post_likes row that another execution
\* has deleted meanwhile matches no row: the flush raises.  With likes
\* loaded as 0 the attribute is not assigned and no UPDATE is flushed.
CommitUnlike(h) ==
    LET e == inflight[h] IN
    /\ e.pc = "read"
    /\ e.op = "unlike"
    /\ UNCHANGED <<inviteVars, friendVars, registerVars, resp>>
    /\ IF e.caller \notin posts[e.id].liked_by
       THEN /\ inflight' = [inflight EXCEPT ![h].pc = "done", ![h].code = 500]
            /\ UNCHANGED posts
       ELSE /\ posts' = [posts EXCEPT ![e.id] =
                           IF e.seen > 0 THEN Unliked(e.caller, Loaded(e))
                           ELSE Unliked(e.caller, @)]
            /\ inflight' = [inflight EXCEPT ![h].pc = "done", ![h].code = 200]

\* The posts table as sequential requests leave it: up to MaxPosts posts,
\* each liked by some of the accounts and counting them.
StoredPosts ==
    {[NewPost(1, "hello") EXCEPT !.liked_by = L, !.likes = Cardinality(L)] :
        L \in SUBSET (Likers \ {0})}

RECURSIVE PostTables(_)
PostTables(n) ==
    IF n = 0 THEN {<<>>}
    ELSE PostTables(n - 1)
         \cup {Append(q, x) : q \in {r \in PostTables(n - 1) : Len(r) = n - 1},
                              x \in StoredPosts}

InitLikeRace ==
    /\ account = [a \in Accounts |-> Disconnected]
    /\ invitations = <<>>
    /\ meetings = {}
    /\ webex = [created |-> 0, live |-> {}]
    /\ now = 1
    /\ friend_requests = <<>>
    /\ relations = {}
    /\ notifications = <<>>
    /\ posts \in PostTables(MaxPosts)
    /\ emails = <<>>
    /\ inflight = Sequential
    /\ resp = Idle

NextLikeRace ==
    \/ \E h \in Handlers, c \in Likers, p \in PostIds : BeginLike(h, c, p)
    \/ \E h \in Handlers, c \in Likers, p \in PostIds : BeginUnlike(h, c, p)
    \/ \E h \in Handlers : CommitLike(h)
    \/ \E h \in Handlers : CommitUnlike(h)

SpecLikeRace == InitLikeRace /\ [][NextLikeRace]_vars

(***************************************************************************)
(* accept_invitation, decline_invitation and cancel_invitation when        *)
(* requests overlap.  The handler loads the account, its first profile and *)
(* the invitation and checks the caller and the status; what follows, up   *)
(* to the commit, works on the loaded invitation.  The commit flushes      *)
(* UPDATE meeting_invitations SET status = ... WHERE id = ..., whatever    *)
(* the status of the row has become.                                       *)
(***************************************************************************)
\* Lines 353-370 (accept), 441-458 (decline), 474-491 (cancel).
LoadInvitation(op, c, i) ==
    IF ~AccountExists(c) THEN Execution(op, c, i, "done", 0, 404)
    ELSE IF first(c) = NoId THEN Execution(op, c, i, "done", 0, 400)
    ELSE IF i \notin DOMAIN invitations THEN Execution(op, c, i, "done", 0, 404)
    ELSE IF IF op = "cancel" THEN NotSender(invitations[i], first(c))
                             ELSE NotReceiver(invitations[i], first(c))
         THEN Execution(op, c, i, "done", 0, 403)
    ELSE IF NotPending(invitations[i]) THEN Execution(op, c, i, "done", 0, 400)
    ELSE Execution(op, c, i, "read", 0, 0)

BeginAccept(h, c, i) ==
    /\ CanStart(h)
    /\ inflight' = [inflight EXCEPT ![h] = LoadInvitation("accept", c, i)]
    /\ UNCHANGED <<inviteVars, friendVars, postVars, registerVars, resp>>

BeginDecline(h, c, i) ==
    /\ CanStart(h)
    /\ inflight' = [inflight EXCEPT ![h] = LoadInvitation("decline", c, i)]
    /\ UNCHANGED <<inviteVars, friendVars, postVars, registerVars, resp>>

BeginCancel(h, c, i) ==
    /\ CanStart(h)
    /\ inflight' = [inflight EXCEPT ![h] = LoadInvitation("cancel", c, i)]
    /\ UNCHANGED <<inviteVars, friendVars, postVars, registerVars, resp>>

\* The execution answers with a status and no commit of its own.
Answered(h, code) ==
    /\ inflight' = [inflight EXCEPT ![h].pc = "done", ![h].code = code]
    /\ UNCHANGED <<invitations, meetings, webex>>

\* Lines 390-433 on the loaded invitation; acc as in AcceptCreate.
FinishCreate(h, acc) ==
    LET e == inflight[h]
        inv == invitations[e.id]
    IN  \E g \in CreateResults :
          IF g = "raise"
          THEN account' = acc /\ Answered(h, 500)
          ELSE /\ webex' = GatewayCreated(webex)
               /\ meetings' = meetings \cup
                                {NewMeeting(inv, first(e.caller), webex.created + 1)}
               /\ invitations' = [invitations EXCEPT ![e.id] = AcceptedInvitation(inv)]
               /\ account' = acc
               /\ inflight' = [inflight EXCEPT ![h].pc = "done", ![h].code = 201]

\* Lines 376-433: the organizer's token, the refresh, the gateway call and
\* the commit.
FinishAccept(h) ==
    LET e == inflight[h]
        s == account_id[invitations[e.id].sender_profile_id]
    IN
    /\ e.pc = "read"
    /\ e.op = "accept"
    /\ UNCHANGED <<now, friendVars, postVars, registerVars, resp>>
    /\ IF NoToken(account[s]) THEN UNCHANGED account /\ Answered(h, 403)
       ELSE IF TokenExpired(account[s])
       THEN \E r \in RefreshResults :
              IF ~r.ok THEN UNCHANGED account /\ Answered(h, 403)
              ELSE FinishCreate(h, [account EXCEPT ![s] = Refreshed(account[s], r)])
       ELSE FinishCreate(h, account)

\* Lines 460-462.
FinishDecline(h) ==
    LET e == inflight[h] IN
    /\ e.pc = "read"
    /\ e.op = "decline"
    /\ invitations' = [invitations EXCEPT ![e.id] = DeclinedInvitation(@)]
    /\ inflight' = [inflight EXCEPT ![h].pc = "done", ![h].code = 200]
    /\ UNCHANGED <<account, meetings, webex, now, friendVars, postVars,
                   registerVars, resp>>

\* Lines 493-495.
FinishCancel(h) ==
    LET e == inflight[h] IN
    /\ e.pc = "read"
    /\ e.op = "cancel"
    /\ invitations' = [invitations EXCEPT ![e.id] = CancelledInvitation(@)]
    /\ inflight' = [inflight EXCEPT ![h].pc = "done", ![h].code = 200]
    /\ UNCHANGED <<account, meetings, webex, now, friendVars, postVars,
                   registerVars, resp>>

\* One pending invitation between the first classrooms of accounts 1 and 2.
StoredInvitations == {<<NewInvitation(1, 2)>>, <<NewInvitation(2, 1)>>}

InitTransitionRace ==
    /\ account \in {f \in [Accounts -> TokenRows] :
                        f[3] = Disconnected /\ f[4] = Disconnected}
    /\ invitations \in StoredInvitations
    /\ meetings = {}
    /\ webex = [created |-> 0, live |-> {}]
    /\ now = 1
    /\ friend_requests = <<>>
    /\ relations = {}
    /\ notifications = <<>>
    /\ posts = <<>>
    /\ emails = <<>>
    /\ inflight = Sequential
    /\ resp = Idle

NextTransitionRace ==
    \/ \E h \in Handlers, c \in Identities, i \in InvitationIds : BeginAccept(h, c, i)
    \/ \E h \in Handlers, c \in Identities, i \in InvitationIds : BeginDecline(h, c, i)
    \/ \E h \in Handlers, c \in Identities, i \in InvitationIds : BeginCancel(h, c, i)
    \/ \E h \in Handlers : FinishAccept(h)
    \/ \E h \in Handlers : FinishDecline(h)
    \/ \E h \in Handlers : FinishCancel(h)
    \/ Tick

SpecTransitionRace == InitTransitionRace /\ [][NextTransitionRace]_vars

(***************************************************************************)
(* send_friend_request when requests overlap.  The handler runs its        *)
(* queries (lines 17-66: account, profiles, existing relation, existing    *)
(* request, reverse request), then builds the rows of the branch the       *)
(* queries chose and commits them (lines 68-92 or 94-108).  No query locks *)
(* a row and friend_requests has no unique constraint.                     *)
(***************************************************************************)
\* Lines 17-66; seen: the id of the pending reverse request, 0 for none.
LoadFriend(c, body) ==
    LET E(pc, seen, code) == Execution("friend", c, body.classroomId, pc, seen, code)
        s == first(c)
        t == body.classroomId
    IN  IF ~AccountExists(c) THEN E("done", 0, 404)
        ELSE IF s = NoId THEN E("done", 0, 404)
        ELSE IF ~body.present THEN E("done", 0, 400)
        ELSE IF t = 0 THEN E("done", 0, 400)
        ELSE IF ~ProfileExists(t) THEN E("done", 0, 404)
        ELSE IF s = t THEN E("done", 0, 400)
        ELSE IF ExistingRelation(s, t) THEN E("done", 0, 400)
        ELSE IF PendingRequests(s, t) # {} THEN E("done", 0, 400)
        ELSE IF PendingRequests(t, s) # {}
             THEN E("read", MinOf(PendingRequests(t, s)), 0)
        ELSE E("read", 0, 0)

BeginFriendRequest(h, c, body) ==
    /\ CanStart(h)
    /\ inflight' = [inflight EXCEPT ![h] = LoadFriend(c, body)]
    /\ UNCHANGED <<inviteVars, friendVars, postVars, registerVars, resp>>

\* The commit raised: the session is rolled back.
RolledBack(h) ==
    /\ inflight' = [inflight EXCEPT ![h].pc = "done", ![h].code = 500]
    /\ UNCHANGED friendVars

\* Lines 68-92 when a reverse request was read, lines 94-108 otherwise.  A
\* relations row is identified by its two profiles: when another execution
\* has inserted the pair meanwhile, the store refuses the second insert or
\* keeps a second row, which the table here does not tell from the first.
FinishFriendRequest(h) ==
    LET e == inflight[h]
        s == first(e.caller)
        t == e.id
    IN
    /\ e.pc = "read"
    /\ e.op = "friend"
    /\ UNCHANGED <<inviteVars, postVars, registerVars, resp>>
    /\ IF e.seen # 0
       THEN LET notif == AcceptedNotification(s, t) IN
            \/ /\ NotNullViolated(notif) \/ ExistingRelation(s, t)
               /\ RolledBack(h)
            \/ /\ ~NotNullViolated(notif)
               /\ friend_requests' =
                     [friend_requests EXCEPT ![e.seen] = AcceptedRequest(@)]
               /\ relations' = relations \cup {NewRelation(t, s), NewRelation(s, t)}
               /\ notifications' = Append(notifications, notif)
               /\ inflight' = [inflight EXCEPT ![h].pc = "done", ![h].code = 200]
       ELSE LET notif == RequestNotification(s, t) IN
            IF NotNullViolated(notif) THEN RolledBack(h)
            ELSE /\ friend_requests' = Append(friend_requests, NewFriendRequest(s, t))
                 /\ notifications' = Append(notifications, notif)
                 /\ UNCHANGED relations
                 /\ inflight' = [inflight EXCEPT ![h].pc = "done", ![h].code = 201]

NextFriendRace ==
    \/ \E h \in Handlers, c \in Identities, body \in FriendBodies :
          BeginFriendRequest(h, c, body)
    \/ \E h \in Handlers : FinishFriendRequest(h)

SpecFriendRace == InitFriends /\ [][NextFriendRace]_vars

(***************************************************************************)
(* register: POST /api/auth/register (main.py).  A password is a sequence  *)
(* of characters.                                                          *)
(***************************************************************************)
\* The three character lists of main.py, each by the ends of its range.
capital_letters == {"A", "Z"}
lowercase_letters == {"a", "z"}
digits == {"0", "9"}

\* `len(password) >= 8`
MinPasswordLength == 8

\* Characters of the passwords tried: one of each list and one of no list.
CharOrder == <<"A", "z", "9", "!">>
Chars == {CharOrder[i] : i \in DOMAIN CharOrder}

\* The password of length n that repeats the characters of S in order.
Core(S) == SelectSeq(CharOrder, LAMBDA x : x \in S)
Cycle(core, n) == [i \in 1 .. n |-> core[((i - 1) % Len(core)) + 1]]

PasswordLengths == {MinPasswordLength - 1, MinPasswordLength, MinPasswordLength + 1}

\* The password field: missing or empty (<<>>), or a string.
PasswordInputs ==
    {<<>>} \cup {Cycle(Core(S), n) : S \in (SUBSET Chars) \ {{}}, n \in PasswordLengths}

\* The email field: missing or empty (None), or an address.
Emails == {"alice@example.com", "bob@example.com"}
EmailInputs == Emails \cup {None}

has_upper(password) == \E i \in DOMAIN password : password[i] \in capital_letters
has_lower(password) == \E i \in DOMAIN password : password[i] \in lowercase_letters
has_digit(password) == \E i \in DOMAIN password : password[i] \in digits

\* Variant: a character outside the capital letters counts as special.
has_special_loose(password) ==
    \E i \in DOMAIN password : password[i] \notin capital_letters

has_special(password) ==
    \E i \in DOMAIN password :
        /\ password[i] \notin capital_letters
        /\ password[i] \notin lowercase_letters
        /\ password[i] \notin digits

\* The condition of line 104 whose negation rejects the password.
PasswordValid(password) ==
    /\ Len(password) >= MinPasswordLength
    /\ has_upper(password)
    /\ has_lower(password)
    /\ has_digit(password)
    /\ has_special(password)

\* Variant: the accounts table is not consulted.
EmailTakenSkipped(email) == FALSE

\* Account.query.filter_by(email=email).first()
EmailTaken(email) == \E k \in DOMAIN emails : emails[k] = email

RegisterResponse(email, password, code, msg) ==
    [Response("register", 0, NoId, code, msg)
     EXCEPT !.email = email, !.password = password]

Register(present, email, password) ==
    LET R(code, msg) == RegisterResponse(email, password, code, msg) IN
    /\ UNCHANGED <<inviteVars, friendVars, postVars, raceVars>>
    /\ IF ~present
       THEN /\ email = None /\ password = <<>>
            /\ resp' = R(400, "Invalid request format")
            /\ UNCHANGED emails
       ELSE IF email = None \/ password = <<>>
       THEN resp' = R(400, "Missing required fields") /\ UNCHANGED emails
       ELSE IF ~PasswordValid(password)
       THEN resp' = R(400, "Password must be at least 8 characters")
            /\ UNCHANGED emails
       ELSE IF EmailTaken(email)
       THEN resp' = R(409, "Account already exists") /\ UNCHANGED emails
       ELSE /\ emails' = Append(emails, email)
            /\ resp' = [R(201, "Account created successfully")
                        EXCEPT !.id = Len(emails) + 1]

NextRegister ==
    \E present \in BOOLEAN, email \in EmailInputs, password \in PasswordInputs :
        Register(present, email, password)

SpecRegister == InitPosts /\ [][NextRegister]_vars

(***************************************************************************)
(* Properties of the invitation workflow.                                  *)
(***************************************************************************)
Terminal == {"accepted", "declined", "cancelled"}
TransitionOps == {"accept", "decline", "cancel"}

\* The database columns of the invitation workflow.
inviteDb == <<account, invitations, meetings, webex>>

\* The response is a Conflict: 400 with the message that reports the status.
IsConflict(r) ==
    /\ r.code = 400
    /\ r.msg \in {"Invitation is already", "Cannot cancel"}
    /\ r.status \in Terminal

\* C1: an invitation's status only moves from pending to accepted, declined
\* or cancelled; once it is one of these three, no later call changes it.
C1_StatusMonotonic ==
    [][\A i \in DOMAIN invitations :
          /\ i \in DOMAIN invitations'
          /\ invitations'[i].status # invitations[i].status
                => /\ invitations[i].status = "pending"
                   /\ invitations'[i].status \in Terminal]_vars

\* An accept, decline or cancel was attempted on an invitation in a terminal
\* status by the profile the operation is reserved to, and was refused.
C1_Witness ==
    /\ resp.op \in TransitionOps
    /\ resp.code = 400
    /\ resp.id \in DOMAIN invitations
    /\ invitations[resp.id].status \in Terminal
    /\ resp.status = invitations[resp.id].status

\* C2 as stated: every accept, decline or cancel attempt on an invitation in
\* a terminal status is answered with a Conflict that reports the status,
\* whoever the caller is (any account that has a classroom).
C2_ConflictWhoeverCalls ==
    [][(/\ resp'.op \in TransitionOps
        /\ AccountExists(resp'.caller)
        /\ first(resp'.caller) # NoId
        /\ resp'.id \in DOMAIN invitations
        /\ invitations[resp'.id].status \in Terminal)
          => /\ IsConflict(resp')
             /\ resp'.status = invitations[resp'.id].status]_vars

\* The profile an operation is reserved to: the receiver for accept and
\* decline, the sender for cancel.
ReservedTo(op, inv) ==
    IF op = "cancel" THEN inv.sender_profile_id ELSE inv.receiver_profile_id

\* C2 amended: an attempt on an invitation in a terminal status never changes
\* anything; it is answered with a Conflict reporting the status when the
\* caller's first profile is the one the operation is reserved to, with 403
\* when the caller's first profile is another one, with 400 when the caller
\* has no profile and with 404 when the caller has no account.
C2_TerminalRejects ==
    [][(/\ resp'.op \in TransitionOps
        /\ resp'.id \in DOMAIN invitations
        /\ invitations[resp'.id].status \in Terminal)
          => LET inv == invitations[resp'.id]
                 c == resp'.caller
             IN  /\ UNCHANGED inviteDb
                 /\ IF ~AccountExists(c) THEN resp'.code = 404
                    ELSE IF first(c) = NoId THEN resp'.code = 400 /\ ~IsConflict(resp')
                    ELSE IF first(c) = ReservedTo(resp'.op, inv)
                         THEN IsConflict(resp') /\ resp'.status = inv.status
                    ELSE resp'.code = 403]_vars

\* A caller whose profile is not the one the operation is reserved to was
\* answered 403 on an invitation in a terminal status.
C2_Witness ==
    /\ resp.op \in TransitionOps
    /\ resp.code = 403
    /\ resp.id \in DOMAIN invitations
    /\ invitations[resp.id].status \in Terminal
    /\ first(resp.caller) # ReservedTo(resp.op, invitations[resp.id])

\* C3: every Meeting row comes from a successful accept: its creator is the
\* sender profile of an accepted invitation whose receiver profile is among
\* its participants; a successful accept inserts exactly one Meeting and
\* sets that invitation's status to accepted in the same step, and no other
\* step inserts a Meeting.
C3_MeetingsFromAccept ==
    /\ [](\A m \in meetings :
            \E i \in DOMAIN invitations :
                /\ invitations[i].status = "accepted"
                /\ invitations[i].sender_profile_id = m.creator_id
                /\ invitations[i].receiver_profile_id \in m.participants)
    /\ [][/\ (meetings' \ meetings # {}) => (resp'.op = "accept" /\ resp'.code = 201)
          /\ (resp'.op = "accept" /\ resp'.code = 201)
                => /\ Cardinality(meetings' \ meetings) = 1
                   /\ meetings \subseteq meetings'
                   /\ invitations[resp'.id].status = "pending"
                   /\ invitations'[resp'.id].status = "accepted"
                   /\ \A m \in meetings' \ meetings :
                        /\ m.creator_id = invitations[resp'.id].sender_profile_id
                        /\ invitations[resp'.id].receiver_profile_id \in m.participants
                        /\ m.id = resp'.meeting]_vars

\* A successful accept has inserted a Meeting.
C3_Witness ==
    /\ resp.op = "accept"
    /\ resp.code = 201
    /\ \E m \in meetings : m.id = resp.meeting

\* C4: after a successful accept the invitation's meeting_id is the id of
\* the Meeting row that the call inserted.
C4_InvitationLinked ==
    (resp.op = "accept" /\ resp.code = 201)
        => /\ invitations[resp.id].meeting_id = resp.meeting
           /\ \E m \in meetings : m.id = invitations[resp.id].meeting_id

\* The call is an accept, by the account whose first profile is the
\* receiver, of an existing pending invitation (evaluated before the call).
AcceptByReceiverOfPending(r) ==
    /\ r.op = "accept"
    /\ AccountExists(r.caller)
    /\ r.id \in DOMAIN invitations
    /\ first(r.caller) = invitations[r.id].receiver_profile_id
    /\ invitations[r.id].status = "pending"

SenderAccount(i) == account_id[invitations[i].sender_profile_id]

\* C5: accept by the receiver of a pending invitation whose sender account
\* holds no access token answers 403, leaves the invitation pending, inserts
\* no Meeting and calls the gateway not at all.
C5_NoTokenForbidden ==
    [][(/\ AcceptByReceiverOfPending(resp')
        /\ account[SenderAccount(resp'.id)].webex_access_token = None)
          => /\ resp'.code = 403
             /\ resp'.calls = <<>>
             /\ invitations' = invitations
             /\ invitations'[resp'.id].status = "pending"
             /\ meetings' = meetings
             /\ webex' = webex
             /\ account' = account]_vars

\* The receiver's accept was refused because the sender is not connected.
C5_Witness ==
    /\ resp.op = "accept"
    /\ resp.code = 403
    /\ resp.msg = "The meeting organizer's WebEx account is not connected"
    /\ invitations[resp.id].status = "pending"

\* C6 as stated: when create_meeting raises, the caller gets 500 and the
\* store is as before the call, the sender's token columns included.
C6_NothingCommittedBeforeGateway ==
    [][(resp'.op = "accept" /\ resp'.code = 500)
          => /\ invitations' = invitations
             /\ meetings' = meetings
             /\ account' = account]_vars

\* C6 amended: when create_meeting raises, the caller gets 500, the
\* invitation is still pending and no Meeting was inserted; the account
\* table is as before unless the sender's token had expired and the refresh
\* succeeded, and then only the sender account's token columns changed
\* (the refreshed token was committed before the gateway call).
C6_OnlyRefreshCommitted ==
    [][(/\ AcceptByReceiverOfPending(resp')
        /\ Len(resp'.calls) > 0
        /\ resp'.calls[Len(resp'.calls)] = "create"
        /\ webex' = webex)
          => LET s == SenderAccount(resp'.id) IN
             /\ resp'.code = 500
             /\ invitations' = invitations
             /\ invitations'[resp'.id].status = "pending"
             /\ meetings' = meetings
             /\ \A a \in Accounts \ {s} : account'[a] = account[a]
             /\ account'[s] # account[s]
                  => /\ resp'.calls = <<"refresh", "create">>
                     /\ account[s].webex_token_expires_at # NoTime
                     /\ account[s].webex_token_expires_at < now
                     /\ account'[s].webex_access_token # None
             /\ resp'.calls = <<"create">> => account'[s] = account[s]]_vars

\* create_meeting raised after a refresh that succeeded.
C6_Witness ==
    /\ resp.op = "accept"
    /\ resp.code = 500
    /\ resp.calls = <<"refresh", "create">>
    /\ invitations[resp.id].status = "pending"
    /\ account[SenderAccount(resp.id)].webex_access_token = "tokB"

C8_DeclineCancelFrame ==
    [][resp'.op \in {"decline", "cancel"}
          => LET i == resp'.id
                 to == IF resp'.op = "decline" THEN "declined" ELSE "cancelled"
             IN  IF resp'.code = 200
                 THEN /\ i \in DOMAIN invitations
                      /\ AccountExists(resp'.caller)
                      /\ first(resp'.caller) = ReservedTo(resp'.op, invitations[i])
                      /\ invitations[i].status = "pending"
                      /\ invitations' = [invitations EXCEPT ![i].status = to]
                      /\ UNCHANGED <<account, meetings, webex, friendVars>>
                 ELSE /\ resp'.code \in {400, 403, 404}
                      /\ UNCHANGED <<inviteDb, friendVars>>]_vars

\* A decline by the receiver went through.
C8_Witness ==
    /\ resp.op = "decline"
    /\ resp.code = 200
    /\ invitations[resp.id].status = "declined"
    /\ first(resp.caller) = invitations[resp.id].receiver_profile_id

(***************************************************************************)
(* Properties of the friend-request resolution.                            *)
(***************************************************************************)
\* Rows of the friend_requests table between s and t, in either direction,
\* that are pending, in the table q.
PendingBetween(q, s, t) ==
    {k \in DOMAIN q :
        /\ q[k].status = "pending"
        /\ \/ q[k].sender_profile_id = s /\ q[k].receiver_profile_id = t
           \/ q[k].sender_profile_id = t /\ q[k].receiver_profile_id = s}

RelationsBetween(R, s, t) ==
    {r \in R : \/ r.from_profile_id = s /\ r.to_profile_id = t
               \/ r.from_profile_id = t /\ r.to_profile_id = s}

\* The call is a friend request from an account's first profile to an
\* existing other profile, with no Relation between the two and no pending
\* request in either direction (evaluated before the call).
FreshFriendRequest(r) ==
    /\ r.op = "friend"
    /\ AccountExists(r.caller)
    /\ first(r.caller) # NoId
    /\ ProfileExists(r.id)
    /\ first(r.caller) # r.id
    /\ RelationsBetween(relations, first(r.caller), r.id) = {}
    /\ PendingBetween(friend_requests, first(r.caller), r.id) = {}

\* C9: A submits a friend request to B (the request is taken as a new one),
\* and B's request to A is the next call: B's call answers accepted, there
\* are then exactly the two Relation rows A->B and B->A, both accepted, no
\* pending request between A and B, and one new Notification, for A's
\* account.
C9_MutualRequestAccepted ==
    [][(/\ resp.op = "friend"
        /\ resp.code \in {201, 500}
        /\ resp'.op = "friend"
        /\ AccountExists(resp'.caller)
        /\ first(resp'.caller) = resp.id
        /\ resp'.id = first(resp.caller))
          => LET A == first(resp.caller)
                 B == resp.id
             IN  /\ resp'.code = 200
                 /\ resp'.status = "accepted"
                 /\ RelationsBetween(relations', A, B)
                      = {NewRelation(A, B), NewRelation(B, A)}
                 /\ \A r \in RelationsBetween(relations', A, B) : r.status = "accepted"
                 /\ PendingBetween(friend_requests', A, B) = {}
                 /\ Len(notifications') = Len(notifications) + 1
                 /\ notifications'[Len(notifications')].account_id = account_id[A]]_vars

\* C10: a friend request to an existing other profile, with no Relation
\* between the pair and no pending request in either direction, inserts one
\* pending FriendRequest sender->target and one Notification for the
\* target's account, and answers pending.
C10_NewRequestPersisted ==
    [][FreshFriendRequest(resp')
          => LET s == first(resp'.caller)
                 t == resp'.id
             IN  /\ resp'.code = 201
                 /\ resp'.status = "pending"
                 /\ friend_requests' = Append(friend_requests, NewFriendRequest(s, t))
                 /\ Len(notifications') = Len(notifications) + 1
                 /\ notifications'[Len(notifications')].account_id = account_id[t]
                 /\ relations' = relations]_vars

\* The call is a friend request from an account's first profile to an
\* existing other profile (evaluated before the call).
ValidFriendRequest(r) ==
    /\ r.op = "friend"
    /\ AccountExists(r.caller)
    /\ first(r.caller) # NoId
    /\ ProfileExists(r.id)
    /\ first(r.caller) # r.id

\* The two duplicate answers of send_friend_request.
IsDuplicate(r) ==
    /\ r.code = 400
    /\ r.msg \in {"Already friends", "Friend request already sent"}

\* C11: a friend request is refused as a duplicate when a Relation row
\* connects sender and target in either direction, or when a pending request
\* from sender to target exists; no FriendRequest, Relation or Notification
\* row is then created or changed.
C11_DuplicateRefused ==
    [][(/\ ValidFriendRequest(resp')
        /\ \/ RelationsBetween(relations, first(resp'.caller), resp'.id) # {}
           \/ PendingRequests(first(resp'.caller), resp'.id) # {})
          => /\ IsDuplicate(resp')
             /\ UNCHANGED friendVars]_vars

\* A request between two profiles that a Relation connects was refused.
C11_Witness ==
    /\ resp.op = "friend"
    /\ resp.code = 400
    /\ resp.msg = "Already friends"
    /\ AccountExists(resp.caller)
    /\ RelationsBetween(relations, first(resp.caller), resp.id) # {}

\* C12: Relation rows are symmetric: with an accepted row A->B there is an
\* accepted row B->A; a step that inserts Relation rows inserts exactly the
\* two rows of one pair, and no step removes or changes a row.
C12_RelationsSymmetric ==
    /\ [](\A r \in relations :
            r.status = "accepted"
                => \E q \in relations :
                      /\ q.from_profile_id = r.to_profile_id
                      /\ q.to_profile_id = r.from_profile_id
                      /\ q.status = "accepted")
    /\ [][/\ relations \subseteq relations'
          /\ relations' # relations
                => \E a, b \in Profiles :
                      /\ a # b
                      /\ relations' \ relations
                            = {[from_profile_id |-> a, to_profile_id |-> b,
                                status |-> "accepted"],
                               [from_profile_id |-> b, to_profile_id |-> a,
                                status |-> "accepted"]}]_vars

\* A mutual request was resolved into the two rows of a pair.
C12_Witness ==
    /\ resp.op = "friend"
    /\ resp.code = 200
    /\ Cardinality(RelationsBetween(relations, first(resp.caller), resp.id)) = 2

(***************************************************************************)
(* Properties of the posts.                                                *)
(***************************************************************************)
\* C13: every post's likes counter equals the number of accounts in its
\* like-set and is never negative, after any sequence of likes and unlikes.
C13_LikesIsCardinality ==
    \A p \in DOMAIN posts :
        /\ posts[p].likes = Cardinality(posts[p].liked_by)
        /\ posts[p].likes >= 0

\* A post was unliked after two accounts had liked it.
C13_Witness ==
    /\ resp.op = "unlike"
    /\ resp.msg = "Post unliked"
    /\ resp.likes = 1
    /\ posts[resp.id].likes = 1

\* C14: a like by an account that already likes the post, and an unlike by
\* one that does not, answer 200 with the current count and leave the post
\* as it is; any other like or unlike of an existing post by an existing
\* account toggles the account's membership, moves the counter by exactly
\* one and answers 200 with the new count.
C14_LikeIdempotent ==
    [][(/\ resp'.op \in {"like", "unlike"}
        /\ AccountExists(resp'.caller)
        /\ resp'.id \in DOMAIN posts)
          => LET c == resp'.caller
                 p == resp'.id
                 member == c \in posts[p].liked_by
                 wanted == (resp'.op = "like")
             IN  /\ resp'.code = 200
                 /\ resp'.likes = posts'[p].likes
                 /\ \A q \in DOMAIN posts : q # p => posts'[q] = posts[q]
                 /\ DOMAIN posts' = DOMAIN posts
                 /\ IF member = wanted
                    THEN posts'[p] = posts[p]
                    ELSE /\ posts'[p].liked_by =
                              (IF wanted THEN posts[p].liked_by \cup {c}
                               ELSE posts[p].liked_by \ {c})
                         /\ posts'[p].likes =
                              (IF wanted THEN posts[p].likes + 1
                               ELSE posts[p].likes - 1)
                         /\ posts'[p].profile_id = posts[p].profile_id
                         /\ posts'[p].content = posts[p].content]_vars

\* A like by an account that already likes the post was answered with the
\* count as it was.
C14_Witness ==
    /\ resp.op = "like"
    /\ resp.msg = "Already liked"
    /\ resp.caller \in posts[resp.id].liked_by
    /\ resp.likes = posts[resp.id].likes

(***************************************************************************)
(* Properties of the registration.                                         *)
(***************************************************************************)
\* The policy as the specification words it: a count of characters and one
\* character of each of the four kinds.
CountIn(password, class) == Cardinality({i \in DOMAIN password : password[i] \in class})

PolicyMet(password) ==
    /\ Len(password) >= 8
    /\ CountIn(password, capital_letters) >= 1
    /\ CountIn(password, lowercase_letters) >= 1
    /\ CountIn(password, digits) >= 1
    /\ CountIn(password, capital_letters \cup lowercase_letters \cup digits)
          < Len(password)

\* A registration with an email that an account row already holds.
DuplicateRegistration(r) ==
    /\ r.op = "register"
    /\ r.email # None
    /\ \E k \in DOMAIN emails : emails[k] = r.email

\* C15 as stated: a registration with an email that already belongs to an
\* account is answered 409 whatever the password, and adds no account.
C15_DuplicateAlwaysConflict ==
    [][(DuplicateRegistration(resp') /\ resp'.password # <<>>)
          => /\ resp'.code = 409
             /\ emails' = emails]_vars

\* C15 amended: a registration with an email that already belongs to an
\* account adds no account; it is answered 409 when its password meets the
\* policy and 400 when the password is missing or does not meet it.
C15_DuplicateRejected ==
    [][DuplicateRegistration(resp')
          => /\ emails' = emails
             /\ resp'.code = IF PolicyMet(resp'.password) THEN 409 ELSE 400]_vars

\* A second registration of an email, with a password that meets the
\* policy, was answered 409.
C15_Witness ==
    /\ resp.op = "register"
    /\ resp.code = 409
    /\ PolicyMet(resp.password)
    /\ Cardinality({k \in DOMAIN emails : emails[k] = resp.email}) = 1

\* C16: a registration that gives an email passes the password check if
\* and only if the password has at least 8 characters, a capital letter, a
\* lowercase letter, a digit and a character that is none of these; any
\* other password is answered 400 and no account is created.
C16_PasswordPolicy ==
    [][(resp'.op = "register" /\ resp'.email # None)
          => IF PolicyMet(resp'.password)
             THEN /\ resp'.code \in {201, 409}
                  /\ resp'.code = 201
                        <=> (emails' = Append(emails, resp'.email)
                             /\ ~DuplicateRegistration(resp'))
                  /\ resp'.code = 409 => emails' = emails
             ELSE /\ resp'.code = 400
                  /\ emails' = emails]_vars

\* A password of 8 characters or more that lacks a character outside the
\* three lists was rejected, and one that has all four was accepted.
C16_Witness ==
    /\ resp.op = "register"
    /\ resp.code = 400
    /\ resp.email # None
    /\ Len(resp.password) >= 8
    /\ has_upper(resp.password) /\ has_lower(resp.password) /\ has_digit(resp.password)
    /\ emails # <<>>

(***************************************************************************)
(* Properties of create_webex_meeting.                                     *)
(***************************************************************************)
\* The call is a create by an account that has a classroom.
CreateBySender(r) ==
    /\ r.op = "create"
    /\ AccountExists(r.caller)
    /\ first(r.caller) # NoId

\* The classroom_id is missing (absent, null, 0 or empty), is no number, or
\* names a placeholder classroom.
BadClassroomId(cid) ==
    \/ cid.kind \in {"missing", "text", "dummy"}
    \/ cid.kind = "int" /\ cid.val = 0

\* C17: a create whose classroom_id is missing, no number or a placeholder
\* is answered 400; one whose classroom_id names no profile is answered 404;
\* one whose classroom_id names the sender's own profile is answered 400; in
\* each of these cases no invitation is stored.
C17_CreateRejects ==
    [][CreateBySender(resp')
          => LET cid == resp'.classroom_id
                 sender == first(resp'.caller)
             IN  /\ BadClassroomId(cid)
                      => resp'.code = 400 /\ invitations' = invitations
                 /\ (~BadClassroomId(cid) /\ cid.val \notin Profiles)
                      => resp'.code = 404 /\ invitations' = invitations
                 /\ (~BadClassroomId(cid) /\ cid.val = sender)
                      => resp'.code = 400 /\ invitations' = invitations]_vars

\* A create that names a profile that does not exist was answered 404.
C17_Witness ==
    /\ resp.op = "create"
    /\ resp.code = 404
    /\ first(resp.caller) # NoId
    /\ resp.classroom_id.kind = "int"
    /\ resp.classroom_id.val \notin Profiles

ManageOps == {"get", "update", "delete"}

\* The call is a get, update or delete of an existing meeting by an
\* account that has a classroom (evaluated before the call).
ManageByProfile(r) ==
    /\ r.op \in ManageOps
    /\ AccountExists(r.caller)
    /\ first(r.caller) # NoId
    /\ \E m \in meetings : m.id = r.id

MeetingOf(r) == CHOOSE m \in meetings : m.id = r.id

\* C19: a get of a meeting is answered 200 exactly when the caller's first
\* profile is the meeting's creator or one of its participants, and 403
\* otherwise; an update or a delete is answered 200 only when the caller's
\* first profile is the creator and the caller's account holds an access
\* token; a caller that is not the creator is answered 403 and the meeting,
\* the gateway's resource and the invitations stay as they are.
C19_MeetingAuthorization ==
    [][ManageByProfile(resp')
          => LET c == resp'.caller
                 meeting == MeetingOf(resp')
                 creator == meeting.creator_id = first(c)
                 listed == first(c) \in meeting.participants
             IN  /\ resp'.op = "get"
                      => /\ resp'.code = 200 <=> (creator \/ listed)
                         /\ ~(creator \/ listed) => resp'.code = 403
                         /\ UNCHANGED <<meetings, webex, invitations>>
                 /\ resp'.op \in {"update", "delete"}
                      => /\ resp'.code = 200
                              => /\ creator
                                 /\ account[c].webex_access_token # None
                                 /\ account'[c].webex_access_token # None
                         /\ ~creator
                              => /\ resp'.code = 403
                                 /\ resp'.calls \in {<<>>, <<"refresh">>}
                                 /\ UNCHANGED <<meetings, webex, invitations>>
                         /\ (creator /\ account[c].webex_access_token = None)
                              => /\ resp'.code = 403
                                 /\ UNCHANGED <<meetings, webex, invitations>>]_vars

\* A participant that is not the creator asked for the deletion of a
\* meeting and was answered 403; the meeting is still there.
C19_Witness ==
    /\ resp.op = "delete"
    /\ resp.code = 403
    /\ \E m \in meetings :
          /\ m.id = resp.id
          /\ first(resp.caller) \in m.participants
          /\ m.creator_id # first(resp.caller)

\* C20: an update or a delete by the creator whose token has expired, when
\* the refresh fails (the token columns stay as they were), is not answered
\* 200, calls neither update_meeting nor delete_meeting, and leaves the
\* Meeting row as it is.
C20_ManageRefreshOrFail ==
    [][(/\ ManageByProfile(resp')
        /\ resp'.op \in {"update", "delete"}
        /\ MeetingOf(resp').creator_id = first(resp'.caller)
        /\ account[resp'.caller].webex_access_token = "tokA"
        /\ account[resp'.caller].webex_token_expires_at # NoTime
        /\ account[resp'.caller].webex_token_expires_at < now
        /\ account'[resp'.caller] = account[resp'.caller])
          => /\ resp'.code # 200
             /\ resp'.calls = <<"refresh">>
             /\ meetings' = meetings
             /\ webex' = webex]_vars

\* C21: a delete removes the gateway's resource before the local row: a
\* Meeting row disappears only in a step in which delete_meeting was called
\* and returned (the resource is gone and the answer is 200); when
\* delete_meeting raises, the row and its participants stay and the answer
\* is an error.
C21_ExternalBeforeLocal ==
    [][/\ \A m \in {r \in meetings : \A n \in meetings' : n.id # r.id} :
             /\ resp'.op = "delete"
             /\ resp'.id = m.id
             /\ resp'.code = 200
             /\ Len(resp'.calls) > 0
             /\ resp'.calls[Len(resp'.calls)] = "delete"
             /\ m.webex_id \in webex.live
             /\ m.webex_id \notin webex'.live
       /\ (/\ resp'.op = "delete"
           /\ Len(resp'.calls) > 0
           /\ resp'.calls[Len(resp'.calls)] = "delete"
           /\ webex' = webex)
             => /\ resp'.code = 500
                /\ meetings' = meetings]_vars

\* delete_meeting raised and the Meeting row is still there.
C21_Witness ==
    /\ resp.op = "delete"
    /\ resp.code = 500
    /\ resp.calls[Len(resp.calls)] = "delete"
    /\ \E m \in meetings : m.id = resp.id /\ m.webex_id \in webex.live

(***************************************************************************)
(* Properties of the notifications.                                        *)
(***************************************************************************)
NotificationOps == {"mark_read", "delete_notification"}

\* The rows of a notifications table, by id.
LiveRows(q) == {n \in DOMAIN q : q[n] # DeletedRow}

\* C22: a mark-read or a delete of an existing notification by a caller that
\* is not the owning account is answered 404 and leaves the table as it is;
\* by the owner it is answered 200 and changes that one row only: the row
\* is marked read, or is gone, and every other row is as it was.
C22_OwnerOnly ==
    [][(/\ resp'.op \in NotificationOps
        /\ resp'.id \in LiveRows(notifications))
          => LET n == resp'.id
                 c == resp'.caller
                 others == LiveRows(notifications) \ {n}
             IN  IF AccountExists(c) /\ notifications[n].account_id = c
                 THEN /\ resp'.code = 200
                      /\ \A k \in others :
                            /\ k \in DOMAIN notifications'
                            /\ notifications'[k] = notifications[k]
                      /\ IF resp'.op = "mark_read"
                         THEN /\ LiveRows(notifications') = LiveRows(notifications)
                              /\ notifications'[n] = [notifications[n] EXCEPT !.read = TRUE]
                         ELSE LiveRows(notifications') = others
                      /\ UNCHANGED <<friend_requests, relations>>
                 ELSE /\ resp'.code = 404
                      /\ notifications' = notifications]_vars

\* An account asked to mark another account's notification read and was
\* answered 404; the notification is still unread.
C22_Witness ==
    /\ resp.op = "mark_read"
    /\ resp.code = 404
    /\ AccountExists(resp.caller)
    /\ resp.id \in LiveRows(notifications)
    /\ notifications[resp.id].account_id # resp.caller
    /\ ~notifications[resp.id].read
    /\ Cardinality(LiveRows(notifications)) = 2

\* C23: a listing holds every post once; a post made by a later create_post
\* comes before every post made earlier; isLiked is true exactly when the
\* request carries the token of an account that is in the post's like-set.
C23_ListedNewestFirst ==
    [][resp'.op = "list"
          => LET items == resp'.items IN
             /\ Len(items) = Len(posts)
             /\ {items[k].id : k \in DOMAIN items} = DOMAIN posts
             /\ \A j, k \in DOMAIN items : j < k => items[j].id > items[k].id
             /\ \A k \in DOMAIN items :
                   items[k].isLiked
                     <=> /\ resp'.caller # Anonymous
                         /\ resp'.caller \in posts[items[k].id].liked_by]_vars

(***************************************************************************)
(* Further properties of the invitation workflow and the friend requests.  *)
(***************************************************************************)
\* The account that an invitation event is news for: the receiver's for a
\* create or a cancel, the sender's for an accept or a decline.
Counterpart(r, q) ==
    IF r.op \in {"create", "cancel"}
    THEN account_id[q[r.id].receiver_profile_id]
    ELSE account_id[q[r.id].sender_profile_id]

\* C24: a create, accept, decline or cancel that succeeds inserts one
\* Notification, for the account of the counterpart.
C24_InvitationEventsNotify ==
    [][(/\ resp'.op \in {"create", "accept", "decline", "cancel"}
        /\ resp'.code \in {200, 201})
          => /\ Len(notifications') = Len(notifications) + 1
             /\ notifications'[Len(notifications')].account_id
                  = Counterpart(resp', invitations')]_vars

C30_OwnerCanTransition ==
    [][(/\ resp'.op \in TransitionOps
        /\ AccountExists(resp'.caller)
        /\ resp'.id \in DOMAIN invitations
        /\ invitations[resp'.id].status = "pending"
        /\ account_id[ReservedTo(resp'.op, invitations[resp'.id])] = resp'.caller)
          => resp'.msg \notin {"This invitation is not for you",
                               "You can only cancel invitations you sent"}]_vars

\* C29: a connect that succeeds with an expires_in in the token response
\* leaves the account with the access token, the refresh token and, in the
\* expiry column that accept_invitation and manage_meeting read, the instant
\* now + expires_in.
C29_ConnectStoresExpiry ==
    [][(/\ resp'.op = "connect"
        /\ resp'.code = 200
        /\ resp'.expires_in # 0)
          => /\ account'[resp'.caller].webex_access_token = "tokA"
             /\ account'[resp'.caller].webex_refresh_token = "refA"
             /\ account'[resp'.caller].webex_token_expires_at
                  = now + resp'.expires_in]_vars

(***************************************************************************)
(* Overlapping requests.                                                   *)
(***************************************************************************)
\* Every execution that started has answered.
AllAnswered == \A h \in Handlers : inflight[h].pc # "read"

\* C26: when two like or unlike requests of different accounts on one post
\* have overlapped and both have answered, the post's counter equals the
\* number of its post_likes rows.
C26_NoLostUpdate ==
    \A g, h \in Handlers :
        (/\ AllAnswered
         /\ g # h
         /\ inflight[g].op \in {"like", "unlike"}
         /\ inflight[h].op = inflight[g].op
         /\ inflight[g].code = 200
         /\ inflight[h].code = 200
         /\ inflight[g].id = inflight[h].id
         /\ inflight[g].caller # inflight[h].caller)
          => posts[inflight[g].id].likes
               = Cardinality(posts[inflight[g].id].liked_by)

\* The executions of a transition that answered with a success.
Effective ==
    {h \in Handlers : /\ inflight[h].op \in TransitionOps
                      /\ inflight[h].code \in {200, 201}}

\* C27: when the transition requests on the one pending invitation have
\* all answered, at most one of them took effect, at most one Meeting and
\* one gateway resource were created for the invitation, and a declined or
\* cancelled invitation has no Meeting.
C27_OneTransitionWins ==
    AllAnswered
      => /\ Cardinality(Effective) <= 1
         /\ Cardinality(meetings) <= 1
         /\ webex.created <= 1
         /\ invitations[1].status \in {"declined", "cancelled"} => meetings = {}

\* Two executions of send_friend_request, each from the classroom the other
\* one names, that both got past the queries.
MutualRequests(g, h) ==
    /\ g # h
    /\ inflight[g].op = "friend"
    /\ inflight[h].op = "friend"
    /\ inflight[g].code \in {200, 201, 500}
    /\ inflight[h].code \in {200, 201, 500}
    /\ first(inflight[g].caller) = inflight[h].id
    /\ first(inflight[h].caller) = inflight[g].id

\* C25: when A's request to B and B's request to A have overlapped and
\* both have answered, A and B are joined by exactly two Relation rows and
\* the requests A to B and B to A are not both pending.
C25_MutualRaceResolves ==
    \A g, h \in Handlers :
        (AllAnswered /\ MutualRequests(g, h))
          => /\ Cardinality(RelationsBetween(relations, inflight[g].id,
                                             inflight[h].id)) = 2
             /\ ~(/\ PendingRequests(inflight[g].id, inflight[h].id) # {}
                  /\ PendingRequests(inflight[h].id, inflight[g].id) # {})
====
